---- MODULE Spec2Model ----
(***************************************************************************)
(* Model of the mamba command dispatcher (package mamba, command.go):      *)
(* the Command tree, Find, flag-set merging and parsing, and the execute   *)
(* lifecycle pipeline.                                                     *)
(*                                                                         *)
(* A *Command pointer is a node identifier; the heap of Command structs is *)
(* the variable cmd, a function from node identifiers to records whose     *)
(* fields carry the names of the struct fields.  A callback field holds    *)
(* TRUE when the Go field is a non-nil func and FALSE when it is nil.      *)
(***************************************************************************)
EXTENDS Integers, Sequences, FiniteSets, TLC

\* ------------------------------------------------------------------------
\* Bounds of the model
\* ------------------------------------------------------------------------
MaxArgs == 3        \* longest token list handed to Find
MaxExecArgs == 3    \* longest token list handed to execute

\* ------------------------------------------------------------------------
\* Values
\* ------------------------------------------------------------------------
Nil == "nil"

Nodes == {"r", "a", "b", "c"}

RECURSIVE SeqsUpTo(_, _)
SeqsUpTo(S, n) ==
    IF n = 0 THEN {<<>>}
    ELSE LET shorter == SeqsUpTo(S, n - 1)
         IN  shorter \cup {Append(s, x) : s \in {t \in shorter : Len(t) = n - 1}, x \in S}

Min(S) == CHOOSE x \in S : \A y \in S : x <= y

\* ------------------------------------------------------------------------
\* The Command struct
\* ------------------------------------------------------------------------
\* A nil PositionalArgs, and a nil *pflag.FlagSet.
NilArgs == [kind |-> "nil", n |-> 0, max |-> 0]

NilFlagSet == [created |-> FALSE, formal |-> {}, output |-> Nil, args |-> <<>>]

\* Use is kept as the list of its space-separated words.
NewCommand(useWords) ==
    [ Use                |-> useWords,
      Aliases            |-> {},
      Run                |-> FALSE, RunE               |-> FALSE,
      PreRun             |-> FALSE, PreRunE            |-> FALSE,
      PostRun            |-> FALSE, PostRunE           |-> FALSE,
      PersistentPreRun   |-> FALSE, PersistentPreRunE  |-> FALSE,
      PersistentPostRun  |-> FALSE, PersistentPostRunE |-> FALSE,
      SilenceErrors      |-> FALSE,
      SilenceUsage       |-> FALSE,
      DisableFlagParsing |-> FALSE,
      Hidden             |-> FALSE,
      Args               |-> NilArgs,
      commands           |-> <<>>,
      parent             |-> Nil,
      flags              |-> NilFlagSet,
      pflags             |-> NilFlagSet,
      lflags             |-> NilFlagSet,
      output             |-> Nil,
      input              |-> Nil,
      errOutput          |-> Nil,
      ctx                |-> Nil ]

\* Name: the part of Use before the first space.
Name(h, c) == IF Len(h[c].Use) = 0 THEN "" ELSE h[c].Use[1]

HasAlias(h, c, s) == \E a \in h[c].Aliases : a = s

\* Mutant: the arguments are attached without the self-parenting test.
RECURSIVE AddCommand_NoCheck(_, _, _)
AddCommand_NoCheck(h, c, cmds) ==
    IF Len(cmds) = 0 THEN [heap |-> h, panic |-> FALSE]
    ELSE LET k  == Head(cmds)
             h1 == [h EXCEPT ![k].parent = c]
             h2 == [h1 EXCEPT ![c].commands = Append(@, k)]
         IN  AddCommand_NoCheck(h2, c, Tail(cmds))

\* Mutant: each argument is put in front of the child list.
RECURSIVE AddCommand_Prepend(_, _, _)
AddCommand_Prepend(h, c, cmds) ==
    IF Len(cmds) = 0 THEN [heap |-> h, panic |-> FALSE]
    ELSE LET k == Head(cmds)
         IN  IF k = c THEN [heap |-> h, panic |-> TRUE]
             ELSE LET h1 == [h EXCEPT ![k].parent = c]
                      h2 == [h1 EXCEPT ![c].commands = <<k>> \o @]
                  IN  AddCommand_Prepend(h2, c, Tail(cmds))

\* AddCommand as a function of the heap.  The loop attaches the arguments one
\* by one and panics at the first one that is the receiver; the result is the
\* heap at the end of the loop or at the panic.
RECURSIVE AddCommand(_, _, _)
AddCommand(h, c, cmds) ==
    IF Len(cmds) = 0 THEN [heap |-> h, panic |-> FALSE]
    ELSE LET k == Head(cmds)
         IN  IF k = c THEN [heap |-> h, panic |-> TRUE]
             ELSE LET h1 == [h EXCEPT ![k].parent = c]
                      h2 == [h1 EXCEPT ![c].commands = Append(@, k)]
                  IN  AddCommand(h2, c, Tail(cmds))

Range(q) == {q[i] : i \in 1..Len(q)}

\* Mutant: the parent of every argument is cleared, child or not.
RemoveCommand_ClearsAll(h, c, cmds) ==
    LET Kept(k) == k \notin Range(cmds)
    IN  [n \in Nodes |->
            IF n \in Range(cmds) THEN [h[n] EXCEPT !.parent = Nil,
                                         !.commands = IF n = c THEN SelectSeq(@, Kept) ELSE @]
            ELSE IF n = c THEN [h[n] EXCEPT !.commands = SelectSeq(@, Kept)]
            ELSE h[n]]

\* RemoveCommand as a function of the heap: the loop over c.commands, from
\* position i on, kept being the children retained so far.
RECURSIVE RemoveLoop(_, _, _, _, _)
RemoveLoop(h, c, cmds, i, kept) ==
    IF i > Len(h[c].commands) THEN [h EXCEPT ![c].commands = kept]
    ELSE LET command == h[c].commands[i]
         IN  IF command \in Range(cmds)
             THEN RemoveLoop([h EXCEPT ![command].parent = Nil], c, cmds, i + 1, kept)
             ELSE RemoveLoop(h, c, cmds, i + 1, Append(kept, command))

RemoveCommand(h, c, cmds) == RemoveLoop(h, c, cmds, 1, <<>>)

\* Root: the recursion on c.parent, depth recursive calls deep so far; on a
\* chain of parents longer than the number of nodes it never returns.
Diverges == "diverges"

RECURSIVE RootFrom(_, _, _)
RootFrom(h, c, depth) ==
    IF h[c].parent = Nil THEN c
    ELSE IF depth >= Cardinality(Nodes) THEN Diverges
    ELSE RootFrom(h, h[c].parent, depth + 1)

Root(h, c) == RootFrom(h, c, 0)

HasSubCommands(h, c) == Len(h[c].commands) > 0

HasParent(h, c) == h[c].parent # Nil

\* ------------------------------------------------------------------------
\* Find
\* ------------------------------------------------------------------------
Matches(h, k, tok) == Name(h, k) = tok \/ HasAlias(h, k, tok)

\* Mutant: a pass over the names comes before a pass over the aliases.
FirstMatch_NamesFirst(h, c, tok) ==
    LET kids   == h[c].commands
        byName == {i \in 1..Len(kids) : Name(h, kids[i]) = tok}
        byAny  == {i \in 1..Len(kids) : Matches(h, kids[i], tok)}
    IN  IF byName # {} THEN kids[Min(byName)]
        ELSE IF byAny # {} THEN kids[Min(byAny)] ELSE Nil

\* Mutant: hidden children are passed over by the loop of Find.
FirstMatch_Visible(h, c, tok) ==
    LET kids == h[c].commands
        hits == {i \in 1..Len(kids) : Matches(h, kids[i], tok) /\ ~h[kids[i]].Hidden}
    IN  IF hits = {} THEN Nil ELSE kids[Min(hits)]

\* The child the loop of Find returns into: the first one, in the order of
\* c.commands, whose name or alias equals the token; Nil when the loop ends.
FirstMatch(h, c, tok) ==
    LET kids == h[c].commands
        hits == {i \in 1..Len(kids) : Matches(h, kids[i], tok)}
    IN  IF hits = {} THEN Nil ELSE kids[Min(hits)]

\* Mutant: the matched child is returned without resolving the rest in it.
Find_OneLevel(h, c, args) ==
    IF Len(args) = 0 THEN [cmd |-> c, args |-> args, err |-> Nil]
    ELSE LET k == FirstMatch(h, c, args[1])
         IN  IF k # Nil THEN [cmd |-> k, args |-> Tail(args), err |-> Nil]
             ELSE [cmd |-> c, args |-> args, err |-> Nil]

\* Mutant: a first token that names no child is an error.
RECURSIVE Find_Strict(_, _, _)
Find_Strict(h, c, args) ==
    IF Len(args) = 0 THEN [cmd |-> c, args |-> args, err |-> Nil]
    ELSE LET k == FirstMatch(h, c, args[1])
         IN  IF k # Nil THEN Find_Strict(h, k, Tail(args))
             ELSE [cmd |-> c, args |-> args, err |-> "unknown command"]

RECURSIVE Find(_, _, _)
Find(h, c, args) ==
    IF Len(args) = 0 THEN [cmd |-> c, args |-> args, err |-> Nil]
    ELSE LET k == FirstMatch(h, c, args[1])
         IN  IF k # Nil THEN Find(h, k, Tail(args))
             ELSE [cmd |-> c, args |-> args, err |-> Nil]

\* ------------------------------------------------------------------------
\* The "Available Commands" listing of the help texts
\* ------------------------------------------------------------------------
\* Mutant: the listing of UsageString names every child.
RECURSIVE UsageCommands_All(_, _, _)
UsageCommands_All(h, c, i) ==
    IF i > Len(h[c].commands) THEN <<>>
    ELSE <<Name(h, h[c].commands[i])>> \o UsageCommands_All(h, c, i + 1)

\* UsageString: the names written by the loop over c.commands, from child i.
RECURSIVE UsageCommands(_, _, _)
UsageCommands(h, c, i) ==
    IF i > Len(h[c].commands) THEN <<>>
    ELSE LET k == h[c].commands[i]
         IN  (IF ~h[k].Hidden THEN <<Name(h, k)>> ELSE <<>>) \o UsageCommands(h, c, i + 1)

\* ModernHelp: visibleCmds is collected first, then one line per element.
ModernHelpCommands(h, c) ==
    LET Visible(k)  == ~h[k].Hidden
        visibleCmds == SelectSeq(h[c].commands, Visible)
    IN  [i \in 1..Len(visibleCmds) |-> Name(h, visibleCmds[i])]

\* ------------------------------------------------------------------------
\* Streams
\* ------------------------------------------------------------------------
Stdout == "os.Stdout"
Stderr == "os.Stderr"
Stdin == "os.Stdin"

SetOutput(h, c, w) == [h EXCEPT ![c].output = w]

SetErr(h, c, w) == [h EXCEPT ![c].errOutput = w]

SetIn(h, c, w) == [h EXCEPT ![c].input = w]

\* Mutant: an unbound node falls back to the process's stream at once.
OutOrStdout_NoWalk(h, c) ==
    IF h[c].output # Nil THEN h[c].output ELSE Stdout

RECURSIVE OutOrStdout(_, _)
OutOrStdout(h, c) ==
    IF h[c].output # Nil THEN h[c].output
    ELSE IF h[c].parent # Nil THEN OutOrStdout(h, h[c].parent)
    ELSE Stdout

RECURSIVE ErrOrStderr(_, _)
ErrOrStderr(h, c) ==
    IF h[c].errOutput # Nil THEN h[c].errOutput
    ELSE IF h[c].parent # Nil THEN ErrOrStderr(h, h[c].parent)
    ELSE Stderr

RECURSIVE InOrStdin(_, _)
InOrStdin(h, c) ==
    IF h[c].input # Nil THEN h[c].input
    ELSE IF h[c].parent # Nil THEN InOrStdin(h, h[c].parent)
    ELSE Stdin

\* ------------------------------------------------------------------------
\* Positional validators
\* ------------------------------------------------------------------------
NoArgs == [kind |-> "NoArgs", n |-> 0, max |-> 0]

ArbitraryArgs == [kind |-> "ArbitraryArgs", n |-> 0, max |-> 0]

MinimumNArgs(n) == [kind |-> "MinimumNArgs", n |-> n, max |-> 0]

MaximumNArgs(n) == [kind |-> "MaximumNArgs", n |-> n, max |-> 0]

ExactArgs(n) == [kind |-> "ExactArgs", n |-> n, max |-> 0]

RangeArgs(min, max) == [kind |-> "RangeArgs", n |-> min, max |-> max]

ErrValidation == "validation error"

\* Mutant: the bounds of the counting validators are exclusive.
CallArgs_Exclusive(v, args) ==
    LET bad == CASE v.kind = "NoArgs"        -> Len(args) > 0
                 [] v.kind = "ArbitraryArgs" -> FALSE
                 [] v.kind = "MinimumNArgs"  -> Len(args) <= v.n
                 [] v.kind = "MaximumNArgs"  -> Len(args) >= v.n
                 [] v.kind = "ExactArgs"     -> Len(args) # v.n
                 [] v.kind = "RangeArgs"     -> Len(args) <= v.n \/ Len(args) >= v.max
    IN  IF bad THEN ErrValidation ELSE Nil

\* The call v(cmd, args) of a non-nil validator: Nil, or the error.
CallArgs(v, args) ==
    LET bad == CASE v.kind = "NoArgs"        -> Len(args) > 0
                 [] v.kind = "ArbitraryArgs" -> FALSE
                 [] v.kind = "MinimumNArgs"  -> Len(args) < v.n
                 [] v.kind = "MaximumNArgs"  -> Len(args) > v.n
                 [] v.kind = "ExactArgs"     -> Len(args) # v.n
                 [] v.kind = "RangeArgs"     -> Len(args) < v.n \/ Len(args) > v.max
    IN  IF bad THEN ErrValidation ELSE Nil

\* ------------------------------------------------------------------------
\* Flag sets (github.com/spf13/pflag as command.go uses it)
\* ------------------------------------------------------------------------
\* A *pflag.Flag is identified by where it was registered; flag sets that
\* hold the same identifier share the flag and so its value.
Scopes == {"flags", "pflags", "lflags"}

FlagNames == {"name", "verbose", "help"}

AllFlags == [owner : Nodes, scope : Scopes, Name : FlagNames]

NilFlag == [owner |-> Nil, scope |-> Nil, Name |-> Nil]

FlagType(n) == IF n = "name" THEN "string" ELSE "bool"

Shorthand(n) == CASE n = "name" -> "n" [] n = "verbose" -> "v" [] n = "help" -> "h"

DefValue(n) == IF FlagType(n) = "bool" THEN "false" ELSE ""

\* Bool flags take no separate value token.
NoOptDefVal(n) == IF FlagType(n) = "bool" THEN "true" ELSE ""

\* Value.Set: a bool flag accepts only a boolean literal.
ValidValue(n, v) == FlagType(n) = "string" \/ v \in {"true", "false"}

\* The lazily created flag set of a scope: its output is resolved at creation.
NewFlagSet(h, c) ==
    [created |-> TRUE, formal |-> {}, output |-> ErrOrStderr(h, c), args |-> <<>>]

Flags(h, c) ==
    IF h[c].flags.created THEN h ELSE [h EXCEPT ![c].flags = NewFlagSet(h, c)]

LocalFlags(h, c) ==
    IF h[c].lflags.created THEN h ELSE [h EXCEPT ![c].lflags = NewFlagSet(h, c)]

PersistentFlags(h, c) ==
    IF h[c].pflags.created THEN h ELSE [h EXCEPT ![c].pflags = NewFlagSet(h, c)]

Lookup(fs, n) ==
    LET m == {f \in fs.formal : f.Name = n}
    IN  IF m = {} THEN NilFlag ELSE CHOOSE f \in m : TRUE

ShorthandLookup(fs, ch) ==
    LET m == {f \in fs.formal : Shorthand(f.Name) = ch}
    IN  IF m = {} THEN NilFlag ELSE CHOOSE f \in m : TRUE

\* Mutant: a flag of src replaces the flag of the same name in c.Flags().
VisitAllAdd_Overwrite(h, c, src) ==
    IF src.formal = {} THEN h
    ELSE LET h1 == Flags(h, c)
         IN  [h1 EXCEPT ![c].flags.formal =
                 {g \in @ : \A f \in src.formal : f.Name # g.Name} \cup src.formal]

\* src.VisitAll(func(f) { if c.Flags().Lookup(f.Name) == nil { c.Flags().AddFlag(f) } }):
\* c.Flags() is reached only when src holds a flag; names are unique within
\* src, so the flags it adds do not hide one another.
VisitAllAdd(h, c, src) ==
    IF src.formal = {} THEN h
    ELSE LET h1 == Flags(h, c)
         IN  [h1 EXCEPT ![c].flags.formal =
                 @ \cup {f \in src.formal : Lookup(h1[c].flags, f.Name) = NilFlag}]

RECURSIVE mergePersistentFlags(_, _)
mergePersistentFlags(h, c) ==
    LET p  == h[c].parent
        h1 == IF p # Nil
              THEN LET hp == PersistentFlags(mergePersistentFlags(h, p), p)
                   IN  VisitAllAdd(hp, c, hp[p].pflags)
              ELSE h
        h2 == PersistentFlags(h1, c)
        h3 == VisitAllAdd(h2, c, h2[c].pflags)
        h4 == LocalFlags(h3, c)
    IN  VisitAllAdd(h4, c, h4[c].lflags)

\* Registration through one of the three accessors, e.g.
\* c.Flags().StringP("name", "n", "", ...): creates the set, adds the flag.
Register(h, c, scope, n) ==
    LET h1 == CASE scope = "flags"  -> Flags(h, c)
                [] scope = "pflags" -> PersistentFlags(h, c)
                [] scope = "lflags" -> LocalFlags(h, c)
    IN  [h1 EXCEPT ![c][scope].formal = @ \cup {[owner |-> c, scope |-> scope, Name |-> n]}]

\* ------------------------------------------------------------------------
\* FlagSet.Parse.  The parser is the pflag library's, which command.go calls
\* and does not contain; it is modelled after the FlagScope contract (long
\* and short forms, inline and following values, the "--" terminator,
\* positional arguments interspersed with flags, the three parse errors) and
\* pflag's handling of an undefined help flag.
\* ------------------------------------------------------------------------
\* How parseArgs reads a token: "--" ends the flags, "--x" and "--x=v" are
\* long flags, "-x" is a shorthand, anything else is a positional argument.
TokenShape(t) ==
    CASE t = "--"              -> [kind |-> "dashdash", name |-> "", hasVal |-> FALSE, val |-> ""]
      [] t = "--name"          -> [kind |-> "long", name |-> "name", hasVal |-> FALSE, val |-> ""]
      [] t = "--name=Alice"    -> [kind |-> "long", name |-> "name", hasVal |-> TRUE, val |-> "Alice"]
      [] t = "--verbose"       -> [kind |-> "long", name |-> "verbose", hasVal |-> FALSE, val |-> ""]
      [] t = "--verbose=maybe" -> [kind |-> "long", name |-> "verbose", hasVal |-> TRUE, val |-> "maybe"]
      [] t = "--help"          -> [kind |-> "long", name |-> "help", hasVal |-> FALSE, val |-> ""]
      [] t = "--bogus"         -> [kind |-> "long", name |-> "bogus", hasVal |-> FALSE, val |-> ""]
      [] t = "-n"              -> [kind |-> "short", name |-> "n", hasVal |-> FALSE, val |-> ""]
      [] t = "-v"              -> [kind |-> "short", name |-> "v", hasVal |-> FALSE, val |-> ""]
      [] t = "-h"              -> [kind |-> "short", name |-> "h", hasVal |-> FALSE, val |-> ""]
      [] OTHER                 -> [kind |-> "arg", name |-> "", hasVal |-> FALSE, val |-> ""]

ErrHelp == "pflag: help requested"
ErrUnknownFlag == "unknown flag"
ErrNeedsArgument == "flag needs an argument"
ErrInvalidArgument == "invalid argument"

ParseErrors == {ErrHelp, ErrUnknownFlag, ErrNeedsArgument, ErrInvalidArgument}

FlagFail(e, printsUsage) ==
    [err |-> e, rest |-> <<>>, set |-> <<>>, usage |-> printsUsage]

\* fn(flag, value): FlagSet.Set.
FlagSetTo(flag, v, rest) ==
    IF ValidValue(flag.Name, v)
    THEN [err |-> Nil, rest |-> rest, set |-> <<[flag |-> flag, value |-> v]>>, usage |-> FALSE]
    ELSE FlagFail(ErrInvalidArgument, FALSE)

\* The value of a flag that is in the set: inline, implied, or the next token.
FlagTakeValue(flag, sh, a) ==
    IF sh.hasVal THEN FlagSetTo(flag, sh.val, a)
    ELSE IF NoOptDefVal(flag.Name) # "" THEN FlagSetTo(flag, NoOptDefVal(flag.Name), a)
    ELSE IF Len(a) > 0 THEN FlagSetTo(flag, Head(a), Tail(a))
    ELSE FlagFail(ErrNeedsArgument, FALSE)

\* An undefined --help or -h prints the flag set's usage and fails with ErrHelp.
parseLongArg(fs, sh, a) ==
    LET flag == Lookup(fs, sh.name)
    IN  IF flag = NilFlag
        THEN IF sh.name = "help" THEN FlagFail(ErrHelp, TRUE) ELSE FlagFail(ErrUnknownFlag, FALSE)
        ELSE FlagTakeValue(flag, sh, a)

parseShortArg(fs, sh, a) ==
    LET flag == ShorthandLookup(fs, sh.name)
    IN  IF flag = NilFlag
        THEN IF sh.name = "h" THEN FlagFail(ErrHelp, TRUE) ELSE FlagFail(ErrUnknownFlag, FALSE)
        ELSE FlagTakeValue(flag, sh, a)

\* parseArgs with the positional arguments and the assignments made so far.
RECURSIVE parseArgs(_, _, _, _)
parseArgs(fs, args, pos, sets) ==
    IF Len(args) = 0 THEN [err |-> Nil, args |-> pos, sets |-> sets, usage |-> FALSE]
    ELSE LET s    == Head(args)
             rest == Tail(args)
             sh   == TokenShape(s)
         IN  IF sh.kind = "arg" THEN parseArgs(fs, rest, Append(pos, s), sets)
             ELSE IF sh.kind = "dashdash"
             THEN [err |-> Nil, args |-> pos \o rest, sets |-> sets, usage |-> FALSE]
             ELSE LET r == IF sh.kind = "long" THEN parseLongArg(fs, sh, rest)
                           ELSE parseShortArg(fs, sh, rest)
                  IN  IF r.err # Nil
                      THEN [err |-> r.err, args |-> pos, sets |-> sets, usage |-> r.usage]
                      ELSE parseArgs(fs, r.rest, pos, sets \o r.set)

\* c.ParseFlags(args): the heap after merging and parsing, and the outcome.
ParseFlags(h, c, args) ==
    LET h1 == Flags(mergePersistentFlags(h, c), c)
        r  == parseArgs(h1[c].flags, args, <<>>, <<>>)
    IN  [heap  |-> [h1 EXCEPT ![c].flags.args = r.args],
         err   |-> r.err,
         sets  |-> r.sets,
         usage |-> r.usage,
         out   |-> h1[c].flags.output]

\* The flag values after the assignments of a parse, in order.
RECURSIVE ApplySets(_, _)
ApplySets(fv, sets) ==
    IF Len(sets) = 0 THEN fv
    ELSE ApplySets([fv EXCEPT ![Head(sets).flag] = Head(sets).value], Tail(sets))

\* ------------------------------------------------------------------------
\* Lifecycle stages
\* ------------------------------------------------------------------------
Stages == {"PersistentPreRun", "PreRun", "Run", "PostRun", "PersistentPostRun"}

StageOrder == <<"PersistentPreRun", "PreRun", "Run", "PostRun", "PersistentPostRun">>

\* The fallible field of a stage.
Fallible(stage) ==
    CASE stage = "PersistentPreRun"  -> "PersistentPreRunE"
      [] stage = "PreRun"            -> "PreRunE"
      [] stage = "Run"               -> "RunE"
      [] stage = "PostRun"           -> "PostRunE"
      [] stage = "PersistentPostRun" -> "PersistentPostRunE"

FallibleFns == {Fallible(s) : s \in Stages}

StageOf(fn) == IF fn \in Stages THEN fn ELSE CHOOSE s \in Stages : Fallible(s) = fn

\* The error a fallible callback returns when it fails.
ErrFrom(fn) ==
    CASE fn = "PersistentPreRunE"  -> "error from PersistentPreRunE"
      [] fn = "PreRunE"            -> "error from PreRunE"
      [] fn = "RunE"               -> "error from RunE"
      [] fn = "PostRunE"           -> "error from PostRunE"
      [] fn = "PersistentPostRunE" -> "error from PersistentPostRunE"

CallbackErrors == {ErrFrom(fn) : fn \in FallibleFns}

\* What a callback can return: a plain one returns nothing, a fallible one
\* nil or its error.
Returns(fn) == IF fn \in FallibleFns THEN {Nil, ErrFrom(fn)} ELSE {Nil}

\* The five execute* methods: the field of c each one calls, Nil for none.
executePersistentPreRun(h, c) ==
    IF h[c].PersistentPreRunE THEN "PersistentPreRunE"
    ELSE IF h[c].PersistentPreRun THEN "PersistentPreRun" ELSE Nil

\* Mutant: the non-fallible PreRun is forgotten.
executePreRun_OnlyE(h, c) ==
    IF h[c].PreRunE THEN "PreRunE" ELSE Nil

executePreRun(h, c) ==
    IF h[c].PreRunE THEN "PreRunE"
    ELSE IF h[c].PreRun THEN "PreRun" ELSE Nil

\* Mutant: the non-fallible Run is tested first.
executeRun_PlainFirst(h, c) ==
    IF h[c].Run THEN "Run"
    ELSE IF h[c].RunE THEN "RunE" ELSE Nil

executeRun(h, c) ==
    IF h[c].RunE THEN "RunE"
    ELSE IF h[c].Run THEN "Run" ELSE Nil

executePostRun(h, c) ==
    IF h[c].PostRunE THEN "PostRunE"
    ELSE IF h[c].PostRun THEN "PostRun" ELSE Nil

executePersistentPostRun(h, c) ==
    IF h[c].PersistentPostRunE THEN "PersistentPostRunE"
    ELSE IF h[c].PersistentPostRun THEN "PersistentPostRun" ELSE Nil

\* ------------------------------------------------------------------------
\* State
\* ------------------------------------------------------------------------
VARIABLES
    cmd,      \* the Command structs, by node
    fval,     \* current value of every flag
    pc,       \* position of the call in progress
    recv,     \* receiver of the call
    in,       \* token list the call was made with
    work,     \* execute: the local args after the flag-parsing step
    found,    \* the result of Find: [cmd, args, err]
    calls,    \* callbacks and validators invoked so far: [node, fn, args]
    active,   \* the callback that has been called and has not returned yet
    written,  \* what has been written to the streams: [stream, text, of]
    result    \* the value execute returned

vars == <<cmd, fval, pc, recv, in, work, found, calls, active, written, result>>

NoFind == [cmd |-> Nil, args |-> <<>>, err |-> Nil]

Pending == "pending"

\* ------------------------------------------------------------------------
\* execute, step by step
\* ------------------------------------------------------------------------
\* c.Usage(): the help text of c goes to c's resolved output stream; rendering
\* it reaches c.Flags().
UsageWrite(h, c) == [stream |-> OutOrStdout(h, c), text |-> "usage", of |-> c]

ErrorWrite(h, c, err) == [stream |-> ErrOrStderr(h, c), text |-> err, of |-> c]

\* Mutant: SilenceErrors is not consulted.
ReportRunError_Loud(h, c, err) ==
    <<ErrorWrite(h, c, err)>>
        \o (IF ~h[c].SilenceUsage THEN <<UsageWrite(h, c)>> ELSE <<>>)

\* What execute does when the Run stage returned err, c being the receiver of
\* execute.
ReportRunError(h, c, err) ==
    (IF ~h[c].SilenceErrors THEN <<ErrorWrite(h, c, err)>> ELSE <<>>)
        \o (IF ~h[c].SilenceUsage THEN <<UsageWrite(h, c)>> ELSE <<>>)

\* Mutant: a parse error does not end execute.
ExecParse_GoesOn ==
    /\ pc = "parse"
    /\ IF ~cmd[recv].DisableFlagParsing
       THEN LET r == ParseFlags(cmd, recv, in)
            IN  /\ cmd' = r.heap
                /\ fval' = ApplySets(fval, r.sets)
                /\ work' = r.heap[recv].flags.args
                /\ result' = IF r.err # Nil THEN r.err ELSE result
       ELSE /\ work' = in
            /\ UNCHANGED <<cmd, fval, result>>
    /\ pc' = "find"
    /\ UNCHANGED <<recv, in, found, calls, active, written>>

\* Mutant: DisableFlagParsing is not consulted.
ExecParse_Always ==
    /\ pc = "parse"
    /\ LET r == ParseFlags(cmd, recv, in)
       IN  /\ cmd' = r.heap
           /\ fval' = ApplySets(fval, r.sets)
           /\ written' = IF r.usage
                         THEN Append(written, [stream |-> r.out, text |-> "flag usage", of |-> recv])
                         ELSE written
           /\ IF r.err # Nil
              THEN /\ result' = r.err
                   /\ pc' = "done"
                   /\ UNCHANGED work
              ELSE /\ work' = r.heap[recv].flags.args
                   /\ pc' = "find"
                   /\ UNCHANGED result
    /\ UNCHANGED <<recv, in, found, calls, active>>

\* Parse flags if enabled.
ExecParse ==
    /\ pc = "parse"
    /\ IF ~cmd[recv].DisableFlagParsing
       THEN LET r == ParseFlags(cmd, recv, in)
            IN  /\ cmd' = r.heap
                /\ fval' = ApplySets(fval, r.sets)
                /\ written' = IF r.usage
                              THEN Append(written, [stream |-> r.out, text |-> "flag usage", of |-> recv])
                              ELSE written
                /\ IF r.err # Nil
                   THEN /\ result' = r.err
                        /\ pc' = "done"
                        /\ UNCHANGED work
                   ELSE /\ work' = r.heap[recv].flags.args
                        /\ pc' = "find"
                        /\ UNCHANGED result
       ELSE /\ work' = in
            /\ pc' = "find"
            /\ UNCHANGED <<cmd, fval, written, result>>
    /\ UNCHANGED <<recv, in, found, calls, active>>

\* Find the command to execute.
ExecFind ==
    /\ pc = "find"
    /\ LET f == Find(cmd, recv, work)
       IN  /\ found' = f
           /\ IF f.err # Nil
              THEN result' = f.err /\ pc' = "done"
              ELSE pc' = "validate" /\ UNCHANGED result
    /\ UNCHANGED <<cmd, fval, recv, in, work, calls, active, written>>

\* Mutant: the validator is called and its error dropped.
ExecValidate_Dropped ==
    /\ pc = "validate"
    /\ IF cmd[found.cmd].Args # NilArgs
       THEN calls' = Append(calls, [node |-> found.cmd, fn |-> "Args", args |-> found.args])
       ELSE UNCHANGED calls
    /\ pc' = "PersistentPreRun"
    /\ UNCHANGED <<cmd, fval, recv, in, work, found, active, written, result>>

\* Validate arguments.
ExecValidate ==
    /\ pc = "validate"
    /\ IF cmd[found.cmd].Args # NilArgs
       THEN LET err == CallArgs(cmd[found.cmd].Args, found.args)
            IN  /\ calls' = Append(calls, [node |-> found.cmd, fn |-> "Args", args |-> found.args])
                /\ IF err # Nil
                   THEN result' = err /\ pc' = "done"
                   ELSE pc' = "PersistentPreRun" /\ UNCHANGED result
       ELSE /\ pc' = "PersistentPreRun"
            /\ UNCHANGED <<calls, result>>
    /\ UNCHANGED <<cmd, fval, recv, in, work, found, active, written>>

\* Mutant: the callbacks get the tokens as they were before Find.
StageCall_RawArgs(stage, fn, next) ==
    /\ pc = stage
    /\ active = Nil
    /\ IF fn = Nil
       THEN /\ pc' = next
            /\ result' = IF next = "done" THEN Nil ELSE result
            /\ UNCHANGED <<calls, active>>
       ELSE /\ calls' = Append(calls, [node |-> found.cmd, fn |-> fn, args |-> work])
            /\ active' = fn
            /\ UNCHANGED <<pc, result>>
    /\ UNCHANGED <<cmd, fval, recv, in, work, found, written>>

\* A stage is entered: its callback, if any, is called with the target and
\* the leftover tokens; with no callback the stage is over at once.
StageCall(stage, fn, next) ==
    /\ pc = stage
    /\ active = Nil
    /\ IF fn = Nil
       THEN /\ pc' = next
            /\ result' = IF next = "done" THEN Nil ELSE result
            /\ UNCHANGED <<calls, active>>
       ELSE /\ calls' = Append(calls, [node |-> found.cmd, fn |-> fn, args |-> found.args])
            /\ active' = fn
            /\ UNCHANGED <<pc, result>>
    /\ UNCHANGED <<cmd, fval, recv, in, work, found, written>>

\* Mutant: the error of a stage is kept but the pipeline goes on.
StageReturn_GoesOn(stage, next) ==
    /\ pc = stage
    /\ active # Nil
    /\ \E err \in Returns(active) :
          /\ pc' = next
          /\ result' = IF err # Nil THEN err ELSE IF next = "done" THEN Nil ELSE result
    /\ active' = Nil
    /\ UNCHANGED <<cmd, fval, recv, in, work, found, calls, written>>

\* Mutant: the failure of any stage is reported like a failure of Run.
StageReturn_Reporting(stage, next) ==
    /\ pc = stage
    /\ active # Nil
    /\ \E err \in Returns(active) :
          IF err # Nil
          THEN /\ result' = err /\ pc' = "done"
               /\ written' = written \o ReportRunError(cmd, recv, err)
          ELSE /\ pc' = next /\ result' = IF next = "done" THEN Nil ELSE result
               /\ UNCHANGED written
    /\ active' = Nil
    /\ UNCHANGED <<cmd, fval, recv, in, work, found, calls>>

\* Mutant: a failing stage ends execute but its error is swallowed.
StageReturn_Swallow(stage, next) ==
    /\ pc = stage
    /\ active # Nil
    /\ \E err \in Returns(active) :
          IF err # Nil
          THEN result' = Nil /\ pc' = "done"
          ELSE pc' = next /\ result' = IF next = "done" THEN Nil ELSE result
    /\ active' = Nil
    /\ UNCHANGED <<cmd, fval, recv, in, work, found, calls, written>>

\* The callback of a stage other than Run returns.
StageReturn(stage, next) ==
    /\ pc = stage
    /\ active # Nil
    /\ \E err \in Returns(active) :
          IF err # Nil
          THEN result' = err /\ pc' = "done"
          ELSE pc' = next /\ result' = IF next = "done" THEN Nil ELSE result
    /\ active' = Nil
    /\ UNCHANGED <<cmd, fval, recv, in, work, found, calls, written>>

CallPersistentPreRun ==
    StageCall("PersistentPreRun", executePersistentPreRun(cmd, found.cmd), "PreRun")

ReturnPersistentPreRun == StageReturn("PersistentPreRun", "PreRun")

CallPreRun == StageCall("PreRun", executePreRun(cmd, found.cmd), "Run")

ReturnPreRun == StageReturn("PreRun", "Run")

CallRun == StageCall("Run", executeRun(cmd, found.cmd), "PostRun")

\* The Run callback returns; on an error execute reports before it returns.
ReturnRun ==
    /\ pc = "Run"
    /\ active # Nil
    /\ \E err \in Returns(active) :
          IF err # Nil
          THEN /\ written' = written \o ReportRunError(cmd, recv, err)
               /\ cmd' = IF ~cmd[recv].SilenceUsage THEN Flags(cmd, recv) ELSE cmd
               /\ result' = err
               /\ pc' = "done"
          ELSE /\ pc' = "PostRun"
               /\ UNCHANGED <<cmd, written, result>>
    /\ active' = Nil
    /\ UNCHANGED <<fval, recv, in, work, found, calls>>

CallPostRun == StageCall("PostRun", executePostRun(cmd, found.cmd), "PersistentPostRun")

ReturnPostRun == StageReturn("PostRun", "PersistentPostRun")

CallPersistentPostRun ==
    StageCall("PersistentPostRun", executePersistentPostRun(cmd, found.cmd), "done")

ReturnPersistentPostRun == StageReturn("PersistentPostRun", "done")

Next ==
    \/ ExecParse
    \/ ExecFind
    \/ ExecValidate
    \/ CallPersistentPreRun
    \/ ReturnPersistentPreRun
    \/ CallPreRun
    \/ ReturnPreRun
    \/ CallRun
    \/ ReturnRun
    \/ CallPostRun
    \/ ReturnPostRun
    \/ CallPersistentPostRun
    \/ ReturnPersistentPostRun

\* ------------------------------------------------------------------------
\* Applications: the command trees and settings a call starts from, each
\* built the way an application builds it (structs, AddCommand, flag
\* registration, SetOutput/SetErr).
\* ------------------------------------------------------------------------
BaseHeap(aliasA, aliasB, useB) ==
    [n \in Nodes |->
        CASE n = "r" -> NewCommand(<<"root">>)
          [] n = "a" -> [NewCommand(<<"greet", "[name]">>) EXCEPT !.Aliases = aliasA]
          [] n = "b" -> [NewCommand(useB) EXCEPT !.Aliases = aliasB]
          [] n = "c" -> NewCommand(<<"item">>)]

TreeShapes == {"single", "flat", "chain", "bushy", "shared"}

BuildTree(h, shape) ==
    CASE shape = "single" -> h
      [] shape = "flat"   -> AddCommand(h, "r", <<"a", "b">>).heap
      [] shape = "chain"  -> AddCommand(AddCommand(h, "r", <<"a">>).heap, "a", <<"c">>).heap
      [] shape = "bushy"  -> AddCommand(AddCommand(h, "r", <<"a", "b">>).heap, "a", <<"c">>).heap
      [] shape = "shared" -> AddCommand(AddCommand(h, "r", <<"a", "b">>).heap, "a", <<"b", "c">>).heap

\* root -> [greet (alias hi) -> [item], list]
DemoTree == BuildTree(BaseHeap({"hi"}, {}, <<"list">>), "bushy")

\* Which of the two fields of a stage are set.
HookKinds == {"none", "plain", "fallible", "both"}

SetHooks(c, k) ==
    [c EXCEPT
        !.PersistentPreRun   = k["PersistentPreRun"] \in {"plain", "both"},
        !.PersistentPreRunE  = k["PersistentPreRun"] \in {"fallible", "both"},
        !.PreRun             = k["PreRun"] \in {"plain", "both"},
        !.PreRunE            = k["PreRun"] \in {"fallible", "both"},
        !.Run                = k["Run"] \in {"plain", "both"},
        !.RunE               = k["Run"] \in {"fallible", "both"},
        !.PostRun            = k["PostRun"] \in {"plain", "both"},
        !.PostRunE           = k["PostRun"] \in {"fallible", "both"},
        !.PersistentPostRun  = k["PersistentPostRun"] \in {"plain", "both"},
        !.PersistentPostRunE = k["PersistentPostRun"] \in {"fallible", "both"}]

AllBoth == [s \in Stages |-> "both"]

\* Hooks of the applications that vary something else.
Typical ==
    [s \in Stages |-> CASE s = "PersistentPreRun"  -> "plain"
                        [] s = "PreRun"            -> "fallible"
                        [] s = "Run"               -> "fallible"
                        [] s = "PostRun"           -> "none"
                        [] s = "PersistentPostRun" -> "both"]

WithHooks(h, k) == [n \in Nodes |-> SetHooks(h[n], k)]

\* (1) Every combination of set fields on one node, all fields set elsewhere.
LifecycleApps ==
    { [n \in Nodes |-> SetHooks(DemoTree[n], IF n = who THEN k ELSE AllBoth)] :
        who \in {"r", "a"}, k \in [Stages -> HookKinds] }

LifecycleInputs == {<<>>, <<"hi", "x">>}

\* (2) Every validator on greet, some on the root.
MaxN == 2

Validators ==
    {NilArgs, NoArgs, ArbitraryArgs}
        \cup {MinimumNArgs(n) : n \in 0..MaxN}
        \cup {MaximumNArgs(n) : n \in 0..MaxN}
        \cup {ExactArgs(n) : n \in 0..MaxN}
        \cup {RangeArgs(lo, hi) : lo \in 0..MaxN, hi \in 0..MaxN}

ValidationApps ==
    { [WithHooks(DemoTree, Typical) EXCEPT !["a"].Args = va, !["r"].Args = vr] :
        va \in Validators, vr \in {NilArgs, NoArgs, MinimumNArgs(1)} }

ValidationInputs == SeqsUpTo({"greet", "x"}, MaxExecArgs)

\* (3) Flags registered in different places, flag parsing on or off.
FlagLayouts == {"none", "example", "root", "help"}

WithFlags(h, layout) ==
    CASE layout = "none"    -> h
      [] layout = "example" -> Register(Register(h, "r", "pflags", "verbose"), "a", "flags", "name")
      [] layout = "root"    -> Register(Register(h, "r", "lflags", "name"), "r", "flags", "verbose")
      [] layout = "help"    -> Register(Register(h, "r", "flags", "help"), "a", "lflags", "name")

ParseApps ==
    { [WithFlags(WithHooks(DemoTree, Typical), layout) EXCEPT !["r"].DisableFlagParsing = off] :
        layout \in FlagLayouts, off \in BOOLEAN }

ParseVocab == {"greet", "x", "--name", "--bogus", "--verbose=maybe", "-h"}

ParseInputs == SeqsUpTo(ParseVocab, MaxExecArgs) \cup {<<"greet", "--name", "Alice">>}

\* (4) Silence settings and stream bindings on the root and on greet.
ReportApps ==
    { [WithHooks(DemoTree, Typical) EXCEPT
          !["r"].SilenceErrors = rse, !["r"].SilenceUsage = rsu,
          !["a"].SilenceErrors = ase, !["a"].SilenceUsage = asu,
          !["r"].errOutput = re, !["r"].output = ro,
          !["a"].errOutput = ae, !["a"].output = ao] :
        rse \in BOOLEAN, rsu \in BOOLEAN, ase \in BOOLEAN, asu \in BOOLEAN,
        re \in {Nil, "rootErr"}, ro \in {Nil, "rootOut"},
        ae \in {Nil, "greetErr"}, ao \in {Nil, "greetOut"} }

ReportInputs == {<<>>, <<"greet">>}

\* (5) A help flag registered on the root as in TestCommand_HelpFlag, or not
\* registered at all, with validators on the root and on greet.
HelpTokens == {"-h", "--help"}

HelpApps ==
    { [WithFlags(WithHooks(DemoTree, Typical), layout) EXCEPT
          !["a"].Args = va, !["r"].Args = vr, !["r"].DisableFlagParsing = off] :
        layout \in {"none", "help"},
        va \in {NilArgs, NoArgs, ExactArgs(1), MinimumNArgs(1)},
        vr \in {NilArgs, NoArgs},
        off \in BOOLEAN }

HelpInputs ==
    { t \in SeqsUpTo({"greet", "x"} \cup HelpTokens, MaxExecArgs) :
        \E i \in 1..Len(t) : t[i] \in HelpTokens }

\* (6) Hidden set on any of the subcommands.
HiddenApps ==
    { [WithHooks(DemoTree, Typical) EXCEPT
          !["a"].Hidden = ha, !["b"].Hidden = hb, !["c"].Hidden = hc] :
        ha \in BOOLEAN, hb \in BOOLEAN, hc \in BOOLEAN }

HiddenInputs == {<<>>, <<"greet">>, <<"hi", "x">>, <<"list">>, <<"greet", "item">>}

InitCall(h, tokens) ==
    /\ cmd = h
    /\ in = tokens
    /\ fval = [f \in AllFlags |-> DefValue(f.Name)]
    /\ work = <<>>
    /\ found = NoFind
    /\ calls = <<>>
    /\ active = Nil
    /\ written = <<>>
    /\ result = Pending

\* execute(tokens) is called on the root of one of the applications.
Init ==
    /\ pc = "parse"
    /\ recv = "r"
    /\ \E app \in {"lifecycle", "validation", "parse", "report", "help", "hidden"} :
        \E h \in CASE app = "lifecycle"  -> LifecycleApps
                  [] app = "validation" -> ValidationApps
                  [] app = "parse"      -> ParseApps
                  [] app = "report"     -> ReportApps
                  [] app = "help"       -> HelpApps
                  [] app = "hidden"     -> HiddenApps :
        \E tokens \in CASE app = "lifecycle"  -> LifecycleInputs
                       [] app = "validation" -> ValidationInputs
                       [] app = "parse"      -> ParseInputs
                       [] app = "report"     -> ReportInputs
                       [] app = "help"       -> HelpInputs
                       [] app = "hidden"     -> HiddenInputs :
            InitCall(h, tokens)

Spec == Init /\ [][Next]_vars

\* ------------------------------------------------------------------------
\* Find called directly on any node of a tree
\* ------------------------------------------------------------------------
\* Tokens that Find is called with.
FindVocab == {"greet", "list", "hi", "item", "x", "--name"}

FindApps ==
    { BuildTree(BaseHeap(aliasA, aliasB, useB), shape) :
        aliasA \in {{}, {"hi"}, {"list"}},
        aliasB \in {{}, {"hi", "ls"}},
        useB   \in {<<"list">>, <<"greet">>},
        shape  \in TreeShapes }

InitFind ==
    /\ pc = "idle"
    /\ recv = Nil
    /\ \E h \in FindApps : InitCall(h, <<>>)

\* c.Find(args) on any node with any bounded token list.
FindCall ==
    /\ pc = "idle"
    /\ \E c \in Nodes, a \in SeqsUpTo(FindVocab, MaxArgs) :
        /\ recv' = c
        /\ in' = a
        /\ found' = Find(cmd, c, a)
    /\ pc' = "returned"
    /\ UNCHANGED <<cmd, fval, work, calls, active, written, result>>

NextFind == FindCall

SpecFind == InitFind /\ [][NextFind]_vars

\* ------------------------------------------------------------------------
\* AddCommand and RemoveCommand called by the application, on any node
\* ------------------------------------------------------------------------
\* Longest argument list of a call, and number of calls of one behaviour.
MaxCmds == 2
MaxCalls == 2

Panic == "panic"

\* The application starts from the nodes alone or from a tree it has built.
TreeApps == { BuildTree(BaseHeap({}, {}, <<"list">>), shape) :
                shape \in {"single", "flat", "chain", "bushy"} }

InitTree ==
    /\ pc = "idle"
    /\ recv = Nil
    /\ \E h \in TreeApps : InitCall(h, <<>>)

\* c.AddCommand(cmds...); a panic ends the behaviour with the heap as the loop
\* left it.
AddCommandCall ==
    /\ pc \in {"idle", "AddCommand", "RemoveCommand"}
    /\ Len(calls) < MaxCalls
    /\ \E c \in Nodes, cmds \in SeqsUpTo(Nodes, MaxCmds) :
        LET r == AddCommand(cmd, c, cmds)
        IN  /\ cmd' = r.heap
            /\ recv' = c
            /\ in' = cmds
            /\ calls' = Append(calls, [node |-> c, fn |-> "AddCommand", args |-> cmds])
            /\ result' = IF r.panic THEN Panic ELSE Nil
            /\ pc' = IF r.panic THEN "panicked" ELSE "AddCommand"
    /\ UNCHANGED <<fval, work, found, active, written>>

\* c.RemoveCommand(cmds...)
RemoveCommandCall ==
    /\ pc \in {"idle", "AddCommand", "RemoveCommand"}
    /\ Len(calls) < MaxCalls
    /\ \E c \in Nodes, cmds \in SeqsUpTo(Nodes, MaxCmds) :
        /\ cmd' = RemoveCommand(cmd, c, cmds)
        /\ recv' = c
        /\ in' = cmds
        /\ calls' = Append(calls, [node |-> c, fn |-> "RemoveCommand", args |-> cmds])
    /\ result' = Nil
    /\ pc' = "RemoveCommand"
    /\ UNCHANGED <<fval, work, found, active, written>>

NextTree == AddCommandCall \/ RemoveCommandCall

SpecTree == InitTree /\ [][NextTree]_vars

\* ------------------------------------------------------------------------
\* Flags registered and parsed by the application, on any node of a tree
\* ------------------------------------------------------------------------
\* Number of registrations and ParseFlags calls of one behaviour.
MaxFlagOps == 3

\* Names the application registers.
RegNames == {"name", "verbose"}

ParseFlagsInputs == {<<>>, <<"--verbose">>}

InitFlags ==
    /\ pc = "idle"
    /\ recv = Nil
    /\ InitCall(DemoTree, <<>>)

\* c.Flags() / c.LocalFlags() / c.PersistentFlags() followed by a definition
\* such as Bool(n, ...); defining a name twice in one set is a panic of the
\* flag library and is left out.
RegisterCall ==
    /\ pc \in {"idle", "registered", "parsed"}
    /\ Len(calls) < MaxFlagOps
    /\ \E c \in Nodes, scope \in Scopes, n \in RegNames :
        /\ Lookup(cmd[c][scope], n) = NilFlag
        /\ cmd' = Register(cmd, c, scope, n)
        /\ recv' = c
        /\ in' = <<scope, n>>
        /\ calls' = Append(calls, [node |-> c, fn |-> "Register", args |-> <<scope, n>>])
    /\ pc' = "registered"
    /\ UNCHANGED <<fval, work, found, active, written, result>>

\* c.ParseFlags(args): merges the persistent flags into c's flag set and
\* parses args with it.
ParseFlagsCall ==
    /\ pc \in {"idle", "registered", "parsed"}
    /\ Len(calls) < MaxFlagOps
    /\ \E c \in Nodes, args \in ParseFlagsInputs :
        LET r == ParseFlags(cmd, c, args)
        IN  /\ cmd' = r.heap
            /\ fval' = ApplySets(fval, r.sets)
            /\ written' = IF r.usage
                          THEN Append(written, [stream |-> r.out, text |-> "flag usage", of |-> c])
                          ELSE written
            /\ result' = r.err
            /\ recv' = c
            /\ in' = args
            /\ calls' = Append(calls, [node |-> c, fn |-> "ParseFlags", args |-> args])
    /\ pc' = "parsed"
    /\ UNCHANGED <<work, found, active>>

NextFlags == RegisterCall \/ ParseFlagsCall

SpecFlags == InitFlags /\ [][NextFlags]_vars

\* ------------------------------------------------------------------------
\* Execute and ExecuteContext called by the application, after SetContext
\* ------------------------------------------------------------------------
\* Context values of the caller, and how often it calls SetContext.
Contexts == {"ctxA", "ctxB"}

MaxSetContext == 2

\* os.Args[1:] of the process.
OsArgs == {<<>>, <<"greet">>, <<"x">>}

Context(h, c) == h[c].ctx

SetContext(h, c, ctx) == [h EXCEPT ![c].ctx = ctx]

InitContext ==
    /\ pc = "start"
    /\ recv = Nil
    /\ InitCall(WithHooks(DemoTree, AllBoth), <<>>)

\* c.SetContext(ctx), before the command is executed.
SetContextCall ==
    /\ pc = "start"
    /\ Len(calls) < MaxSetContext
    /\ \E c \in Nodes, ctx \in Contexts :
        /\ cmd' = SetContext(cmd, c, ctx)
        /\ calls' = Append(calls, [node |-> c, fn |-> "SetContext", args |-> <<ctx>>])
    /\ UNCHANGED <<fval, pc, recv, in, work, found, active, written, result>>

\* root.ExecuteContext(ctx): stores ctx and enters execute with os.Args[1:].
ExecuteContextCall ==
    /\ pc = "start"
    /\ \E ctx \in Contexts \cup {Nil}, args \in OsArgs :
        /\ cmd' = [cmd EXCEPT !["r"].ctx = ctx]
        /\ calls' = Append(calls, [node |-> "r", fn |-> "ExecuteContext", args |-> <<ctx>>])
        /\ in' = args
    /\ recv' = "r"
    /\ pc' = "parse"
    /\ UNCHANGED <<fval, work, found, active, written, result>>

\* root.Execute() is root.ExecuteContext(nil).
ExecuteCall ==
    /\ pc = "start"
    /\ \E args \in OsArgs :
        /\ cmd' = [cmd EXCEPT !["r"].ctx = Nil]
        /\ calls' = Append(calls, [node |-> "r", fn |-> "Execute", args |-> <<>>])
        /\ in' = args
    /\ recv' = "r"
    /\ pc' = "parse"
    /\ UNCHANGED <<fval, work, found, active, written, result>>

NextContext == SetContextCall \/ ExecuteContextCall \/ ExecuteCall \/ Next

SpecContext == InitContext /\ [][NextContext]_vars

\* ------------------------------------------------------------------------
\* SetOutput, SetErr and SetIn called by the application, on any node
\* ------------------------------------------------------------------------
\* The buffers the application binds, and how many bindings it makes.
Buffers == {"bufA", "bufB"}

MaxSetStream == 3

InitStreams ==
    /\ pc = "idle"
    /\ recv = Nil
    /\ InitCall(DemoTree, <<>>)

SetStreamCall(fn) ==
    /\ pc = "idle"
    /\ Len(calls) < MaxSetStream
    /\ \E c \in Nodes, w \in Buffers :
        /\ cmd' = CASE fn = "SetOutput" -> SetOutput(cmd, c, w)
                     [] fn = "SetErr"    -> SetErr(cmd, c, w)
                     [] fn = "SetIn"     -> SetIn(cmd, c, w)
        /\ recv' = c
        /\ calls' = Append(calls, [node |-> c, fn |-> fn, args |-> <<w>>])
    /\ UNCHANGED <<fval, pc, in, work, found, active, written, result>>

SetOutputCall == SetStreamCall("SetOutput")

SetErrCall == SetStreamCall("SetErr")

SetInCall == SetStreamCall("SetIn")

NextStreams == SetOutputCall \/ SetErrCall \/ SetInCall

SpecStreams == InitStreams /\ [][NextStreams]_vars

\* ------------------------------------------------------------------------
\* The built-in validators called directly
\* ------------------------------------------------------------------------
\* Parameters are Go ints: a negative one is included.
ValidatorParams == (0 - 1)..MaxN

BuiltinValidators ==
    {NoArgs, ArbitraryArgs}
        \cup {MinimumNArgs(n) : n \in ValidatorParams}
        \cup {MaximumNArgs(n) : n \in ValidatorParams}
        \cup {ExactArgs(n) : n \in ValidatorParams}
        \cup {RangeArgs(lo, hi) : lo \in ValidatorParams, hi \in ValidatorParams}

InitValidators ==
    /\ pc = "idle"
    /\ recv = Nil
    /\ \E v \in BuiltinValidators : InitCall([DemoTree EXCEPT !["a"].Args = v], <<>>)

\* greet.Args(greet, args) with any bounded argument list.
ValidatorCall ==
    /\ pc = "idle"
    /\ \E args \in SeqsUpTo({"x", "-h"}, MaxArgs) :
        /\ in' = args
        /\ calls' = Append(calls, [node |-> "a", fn |-> "Args", args |-> args])
        /\ result' = CallArgs(cmd["a"].Args, args)
    /\ recv' = "a"
    /\ pc' = "returned"
    /\ UNCHANGED <<cmd, fval, work, found, active, written>>

NextValidators == ValidatorCall

SpecValidators == InitValidators /\ [][NextValidators]_vars

\* ------------------------------------------------------------------------
\* Properties
\* ------------------------------------------------------------------------
StageIndex(s) == CHOOSE i \in 1..Len(StageOrder) : StageOrder[i] = s

IsLifecycleCall(c) == c.fn # "Args"

LifecycleCalls == SelectSeq(calls, IsLifecycleCall)

\* The stages of the lifecycle calls made so far, in call order.
CalledStages == [i \in 1..Len(LifecycleCalls) |-> StageOf(LifecycleCalls[i].fn)]

HasCallback(n, s) == cmd[n][s] \/ cmd[n][Fallible(s)]

\* The stages up to stage number k for which node n has a callback, in order.
SetStagesUpTo(n, k) ==
    LET Keep(s) == HasCallback(n, s) /\ StageIndex(s) <= k
    IN  SelectSeq(StageOrder, Keep)

Succeeded == pc = "done" /\ result = Nil

\* C1: in an execute call in which no step fails, the stages of the resolved
\* target that have a callback are invoked exactly once each, on the target,
\* in the order PersistentPreRun, PreRun, Run, PostRun, PersistentPostRun; a
\* stage without callback is skipped and the pipeline goes on; and while a
\* callback has not returned it is the last one called (no stage starts before
\* the previous one has returned).
C1_LifecycleOrder ==
    /\ active # Nil =>
          /\ Len(calls) > 0
          /\ calls[Len(calls)].fn = active
          /\ StageOf(active) = pc
    /\ Succeeded =>
          /\ active = Nil
          /\ CalledStages = SetStagesUpTo(found.cmd, 5)
          /\ \A i \in 1..Len(LifecycleCalls) : LifecycleCalls[i].node = found.cmd

\* All five stages of greet ran, and a run in which the root has no PreRun
\* and no PostRun callback succeeded as well.
C1_Witness ==
    /\ Succeeded
    /\ found.cmd = "a"
    /\ CalledStages = StageOrder
    /\ cmd["a"].PreRun /\ ~cmd["a"].PreRunE

C1_WitnessNoOp ==
    /\ Succeeded
    /\ found.cmd = "r"
    /\ ~HasCallback("r", "PreRun")
    /\ CalledStages = <<"PersistentPreRun", "Run", "PostRun", "PersistentPostRun">>

\* C2: when the fallible callback of a stage has returned an error, execute is
\* over with that error: the callbacks invoked are exactly those of the
\* target's stages up to the failing one (every earlier stage with a callback
\* was invoked, no later stage is), the failing callback being the last.
C2_ShortCircuit ==
    result \in CallbackErrors =>
        LET fn == CHOOSE f \in FallibleFns : ErrFrom(f) = result
        IN  /\ pc = "done"
            /\ active = Nil
            /\ Len(LifecycleCalls) > 0
            /\ LifecycleCalls[Len(LifecycleCalls)].fn = fn
            /\ CalledStages = SetStagesUpTo(found.cmd, StageIndex(StageOf(fn)))

\* Run failed after PersistentPreRun and PreRun had been invoked.
C2_Witness ==
    /\ result = ErrFrom("RunE")
    /\ CalledStages = <<"PersistentPreRun", "PreRun", "Run">>
    /\ HasCallback(found.cmd, "PostRun")
    /\ HasCallback(found.cmd, "PersistentPostRun")

C2_WitnessPreRun ==
    /\ result = ErrFrom("PreRunE")
    /\ HasCallback(found.cmd, "Run")
    /\ HasCallback(found.cmd, "PostRun")
    /\ HasCallback(found.cmd, "PersistentPostRun")

\* C3: if the resolved target has a positional validator that rejects the
\* leftover tokens, execute returns the validation error and no lifecycle
\* callback of any node is invoked; for root -> greet with
\* greet.Args = ExactArgs(0), execute(["greet", "x"]) fails and greet's Run is
\* not called.
C3_ValidationAborts ==
    /\ (/\ pc \notin {"parse", "find", "validate"}
        /\ found.cmd # Nil
        /\ cmd[found.cmd].Args # NilArgs
        /\ CallArgs(cmd[found.cmd].Args, found.args) # Nil)
       => /\ pc = "done"
          /\ result = ErrValidation
          /\ LifecycleCalls = <<>>
    /\ (/\ pc = "done"
        /\ in = <<"greet", "x">>
        /\ cmd["a"].Args = ExactArgs(0)
        /\ ~cmd["r"].DisableFlagParsing)
       => /\ result = ErrValidation
          /\ \A i \in 1..Len(calls) : calls[i].fn \notin {"Run", "RunE"}

C3_Witness ==
    /\ pc = "done"
    /\ in = <<"greet", "x">>
    /\ found.cmd = "a"
    /\ cmd["a"].Args = ExactArgs(0)
    /\ cmd["a"].RunE
    /\ result = ErrValidation

\* C4: with flag parsing enabled on the root, a token list that fails to parse
\* (unknown flag, bad value, missing value) makes execute return the parse
\* error with no target resolved, no validator and no lifecycle callback
\* invoked.
C4_ParseErrorAborts ==
    /\ (/\ pc # "parse"
        /\ ~cmd[recv].DisableFlagParsing
        /\ ParseFlags(cmd, recv, in).err # Nil)
       => /\ pc = "done"
          /\ result = ParseFlags(cmd, recv, in).err
          /\ found = NoFind
          /\ calls = <<>>
    /\ result \in ParseErrors =>
          /\ pc = "done"
          /\ found = NoFind
          /\ calls = <<>>

C4_Witness ==
    /\ pc = "done"
    /\ result = ErrUnknownFlag
    /\ in = <<"greet", "--bogus">>

C4_WitnessMissingValue ==
    /\ pc = "done"
    /\ result = ErrNeedsArgument
    /\ Lookup(cmd["r"].flags, "name") # NilFlag

C4_WitnessBadValue ==
    /\ pc = "done"
    /\ result = ErrInvalidArgument

\* The flag "name" that greet registered through greet.Flags().
GreetName == [owner |-> "a", scope |-> "flags", Name |-> "name"]

IsRunCall(c) == c.node = "a" /\ c.fn \in {"Run", "RunE"}

\* C5: a flag registered only on a subcommand is accepted by execute on the
\* root: for tokens ["greet", "--name", "Alice"] with name registered on greet
\* only and flag parsing enabled, parsing succeeds, greet is resolved, greet's
\* Run is invoked (unless an earlier callback failed) and the flag holds
\* "Alice".
C5_SubcommandFlag ==
    (/\ pc = "done"
     /\ in = <<"greet", "--name", "Alice">>
     /\ ~cmd["r"].DisableFlagParsing
     /\ GreetName \in cmd["a"].flags.formal
     /\ Lookup(cmd["r"].flags, "name") = NilFlag)
    => /\ result \notin ParseErrors
       /\ found.cmd = "a"
       /\ fval[GreetName] = "Alice"
       /\ result \in {Nil, ErrFrom("RunE")} => SelectSeq(calls, IsRunCall) # <<>>

\* ------------------------------------------------------------------------
\* Properties of Find
\* ------------------------------------------------------------------------
Returned == pc = "returned"

Children(n) == {cmd[n].commands[i] : i \in 1..Len(cmd[n].commands)}

MatchesAChild(n, tok) == \E k \in Children(n) : Matches(cmd, k, tok)

\* The nodes below n in the tree.
RECURSIVE Descendants(_)
Descendants(n) == Children(n) \cup UNION {Descendants(k) : k \in Children(n)}

\* p is a chain of child matches from node n along the tokens toks.
IsMatchPath(n, toks, p) ==
    /\ Len(p) = Len(toks)
    /\ \A i \in 1..Len(p) :
          /\ p[i] \in Children(IF i = 1 THEN n ELSE p[i - 1])
          /\ Matches(cmd, p[i], toks[i])

\* C6: Find is a greedy descent without backtracking: when the first token is
\* the name or an alias of a child of the receiver, the result is that child
\* or a node below it, never the receiver; the remainder is a suffix of the
\* input, the consumed prefix is a chain of child matches from the receiver to
\* the result, and the first remaining token matches no child of the result.
C6_GreedyDescent ==
    (Returned /\ in # <<>> /\ MatchesAChild(recv, in[1])) =>
        LET k        == Len(in) - Len(found.args)
            consumed == SubSeq(in, 1, k)
        IN  /\ found.cmd # recv
            /\ found.cmd \in Descendants(recv)
            /\ k >= 1
            /\ found.args = SubSeq(in, k + 1, Len(in))
            /\ \E p \in [1..k -> Nodes] :
                  IsMatchPath(recv, consumed, p) /\ p[k] = found.cmd
            /\ found.args # <<>> => ~MatchesAChild(found.cmd, found.args[1])

\* Two levels are consumed, and the match of greet is kept although the next
\* token names a child of the root only.
C6_Witness ==
    /\ Returned
    /\ recv = "r"
    /\ in = <<"greet", "item", "x">>
    /\ found.cmd = "c"
    /\ found.args = <<"x">>

C6_WitnessNoBacktrack ==
    /\ Returned
    /\ recv = "r"
    /\ in = <<"greet", "list">>
    /\ "b" \in Children("r")
    /\ found.cmd = "a"
    /\ found.args = <<"list">>

\* C7: Find([]) returns the receiver with an empty remainder, and Find(tokens)
\* whose first token is no child's name or alias (a flag-like token included)
\* returns the receiver with all of tokens as the remainder; no error is
\* returned in either case.
C7_FindBaseCases ==
    Returned =>
        /\ in = <<>> => found = [cmd |-> recv, args |-> <<>>, err |-> Nil]
        /\ (in # <<>> /\ ~MatchesAChild(recv, in[1])) =>
              found = [cmd |-> recv, args |-> in, err |-> Nil]

C7_Witness ==
    /\ Returned
    /\ recv = "r"
    /\ Children("r") # {}
    /\ in = <<"--name", "greet">>
    /\ found = [cmd |-> "r", args |-> in, err |-> Nil]

C7_WitnessEmpty ==
    /\ Returned
    /\ recv = "a"
    /\ Children("a") # {}
    /\ in = <<>>
    /\ found.cmd = "a"

\* The result of Find when its first step goes into child k.
Via(k) == Find(cmd, k, Tail(in))

\* C8 as claimed: primary names are checked before aliases.  If the first
\* token is the primary name of some child, Find descends into the first such
\* child in registration order; an alias match is used only when no child has
\* the token as its primary name.
C8_NamesBeforeAliases ==
    (Returned /\ in # <<>>) =>
        LET kids   == cmd[recv].commands
            byName == {i \in 1..Len(kids) : Name(cmd, kids[i]) = in[1]}
            byAlias == {i \in 1..Len(kids) : HasAlias(cmd, kids[i], in[1])}
        IN  /\ byName # {} => found = Via(kids[Min(byName)])
            /\ (byName = {} /\ byAlias # {}) => found = Via(kids[Min(byAlias)])

\* C8 amended: Find descends into the first child in registration order whose
\* primary name or one of whose aliases is the first token; a child matching
\* by alias wins over a later child matching by primary name.
C8_FirstMatchInOrder ==
    (Returned /\ in # <<>>) =>
        LET kids == cmd[recv].commands
        IN  \A i \in 1..Len(kids) :
              (/\ Matches(cmd, kids[i], in[1])
               /\ \A j \in 1..(i - 1) : ~Matches(cmd, kids[j], in[1]))
              => found = Via(kids[i])

\* greet has the alias "list" and is registered before the command list.
C8_Witness ==
    /\ Returned
    /\ recv = "r"
    /\ in = <<"list", "x">>
    /\ cmd["r"].commands = <<"a", "b">>
    /\ HasAlias(cmd, "a", "list")
    /\ Name(cmd, "b") = "list"
    /\ found.cmd = "a"

\* ------------------------------------------------------------------------
\* Properties of the callbacks and of error reporting
\* ------------------------------------------------------------------------
Called(n, fn) == \E i \in 1..Len(calls) : calls[i].node = n /\ calls[i].fn = fn

\* C9: in each of the five stages, when both fields are set only the fallible
\* callback is invoked, never the non-fallible one; when only the non-fallible
\* one is set it is invoked, and the stage cannot fail (an error execute
\* returns from a stage comes from a fallible callback set on the target).
C9_FalliblePrecedence ==
    /\ \A i \in 1..Len(calls) :
          /\ calls[i].fn \in Stages => ~cmd[calls[i].node][Fallible(calls[i].fn)]
          /\ calls[i].fn \in FallibleFns => cmd[calls[i].node][calls[i].fn]
    /\ \A f \in FallibleFns : result = ErrFrom(f) => cmd[found.cmd][f]
    /\ Succeeded =>
          \A s \in Stages :
              /\ cmd[found.cmd][Fallible(s)] =>
                    Called(found.cmd, Fallible(s)) /\ ~Called(found.cmd, s)
              /\ (cmd[found.cmd][s] /\ ~cmd[found.cmd][Fallible(s)]) =>
                    Called(found.cmd, s)

\* The root has Run and RunE (RunE was called), and only the plain PreRun.
C9_Witness ==
    /\ Succeeded
    /\ found.cmd = "r"
    /\ cmd["r"].Run /\ cmd["r"].RunE
    /\ cmd["r"].PreRun /\ ~cmd["r"].PreRunE
    /\ Called("r", "RunE") /\ Called("r", "PreRun")

\* C10: when the Run stage of the resolved target fails, the target governs the
\* reporting: the error text goes to the target's resolved error stream unless
\* the target's SilenceErrors is set, and the target's usage text goes to the
\* target's resolved output stream unless the target's SilenceUsage is set.
C10_TargetGovernsReporting ==
    (pc = "done" /\ result = ErrFrom("RunE")) =>
        LET t == found.cmd
        IN  written =
              (IF ~cmd[t].SilenceErrors
               THEN <<[stream |-> ErrOrStderr(cmd, t), text |-> result, of |-> recv]>>
               ELSE <<>>)
              \o (IF ~cmd[t].SilenceUsage
                  THEN <<[stream |-> OutOrStdout(cmd, t), text |-> "usage", of |-> t]>>
                  ELSE <<>>)

\* What execute itself has written: the error text and the usage text. The
\* flag set's own usage print, made by the flag parser when it is asked for
\* an undefined -h/--help, is not one of them.
IsReport(w) == w.text # "flag usage"

Reports == SelectSeq(written, IsReport)

RunFailed == pc = "done" /\ result = ErrFrom("RunE")

C11_WitnessPostRun ==
    /\ pc = "done"
    /\ result = ErrFrom("PostRunE")
    /\ Called(found.cmd, "RunE")
    /\ ~cmd[recv].SilenceErrors /\ ~cmd[recv].SilenceUsage
    /\ written = <<>>

C11_WitnessEarly ==
    /\ pc = "done"
    /\ result \in {ErrValidation, ErrUnknownFlag, ErrFrom("PreRunE"), ErrFrom("PersistentPostRunE")}
    /\ written = <<>>

\* The error streams of the applications: the process's and the bound ones.
ErrStreams == {Stderr, "rootErr", "greetErr"}

OnErrStream(w) == w.stream \in ErrStreams

\* execute is over and RunE was the last callback although the target has a
\* callback for a later stage: the Run stage failed.
StoppedAtRun ==
    /\ pc = "done"
    /\ Len(LifecycleCalls) > 0
    /\ LifecycleCalls[Len(LifecycleCalls)].fn = "RunE"
    /\ HasCallback(found.cmd, "PostRun") \/ HasCallback(found.cmd, "PersistentPostRun")

\* C12: when SilenceErrors is set on the command execute was called on and the
\* Run stage fails, execute returns the error of Run and nothing has been
\* written to any error stream, whether the target is the command itself or
\* one of its subcommands (the usage text, unless silenced too, goes to the
\* output stream).
C12_SilenceErrors ==
    /\ (StoppedAtRun /\ cmd[recv].SilenceErrors) => result = ErrFrom("RunE")
    /\ (RunFailed /\ cmd[recv].SilenceErrors) =>
          /\ SelectSeq(written, OnErrStream) = <<>>
          /\ \A i \in 1..Len(written) : written[i].text # result

\* The command has an error stream of its own, as in TestCommand_SilenceErrors,
\* and is itself the target; the usage text still went to its output stream.
C12_Witness ==
    /\ RunFailed
    /\ StoppedAtRun
    /\ found.cmd = recv
    /\ cmd[recv].SilenceErrors
    /\ cmd[recv].errOutput = "rootErr"
    /\ ~cmd[recv].SilenceUsage
    /\ written = <<UsageWrite(cmd, recv)>>

C12_WitnessSubcommand ==
    /\ RunFailed
    /\ found.cmd = "a"
    /\ cmd[recv].SilenceErrors
    /\ ~cmd["a"].SilenceErrors
    /\ cmd[recv].SilenceUsage
    /\ written = <<>>

\* The error of the flag-parsing step of the call in progress, Nil if the step
\* is disabled or succeeds.
ParseError ==
    IF cmd[recv].DisableFlagParsing THEN Nil ELSE ParseFlags(cmd, recv, in).err

\* The error of the validation step for the resolved target.
ValidationError ==
    IF cmd[found.cmd].Args = NilArgs THEN Nil
    ELSE CallArgs(cmd[found.cmd].Args, found.args)

LastCall == LifecycleCalls[Len(LifecycleCalls)]

\* C13: when execute is over, its result is the error of the first step that
\* failed: the parse error if flag parsing failed, else the validator's error
\* if the validator rejected, else the error of the fallible callback at which
\* the pipeline stopped (PostRun and PersistentPostRun included, after Run has
\* completed); the result is nil only if parsing and validation succeeded and
\* every stage of the target that has a callback was invoked, and a pipeline
\* that stopped before its last stage never yields nil.
C13_ResultOfExecute ==
    pc = "done" =>
        /\ ParseError # Nil => result = ParseError
        /\ (ParseError = Nil /\ ValidationError # Nil) => result = ErrValidation
        /\ (ParseError = Nil /\ ValidationError = Nil) =>
              /\ result \in {Nil} \cup CallbackErrors
              /\ result # Nil =>
                    /\ Len(LifecycleCalls) > 0
                    /\ result = ErrFrom(LastCall.fn)
                    /\ CalledStages =
                         SetStagesUpTo(found.cmd, StageIndex(StageOf(LastCall.fn)))
              /\ CalledStages # SetStagesUpTo(found.cmd, 5) => result # Nil
        /\ result = Nil =>
              /\ ParseError = Nil
              /\ ValidationError = Nil
              /\ CalledStages = SetStagesUpTo(found.cmd, 5)

\* PostRun failed after Run had completed; so did PersistentPostRun; and a
\* run with flags parsed and a validator passed returned nil.
C13_Witness ==
    /\ pc = "done"
    /\ result = ErrFrom("PostRunE")
    /\ CalledStages = <<"PersistentPreRun", "PreRun", "Run", "PostRun">>
    /\ HasCallback(found.cmd, "PersistentPostRun")

C13_WitnessLastStage ==
    /\ pc = "done"
    /\ result = ErrFrom("PersistentPostRunE")
    /\ Called(found.cmd, "RunE")

C13_WitnessNil ==
    /\ Succeeded
    /\ ~cmd[recv].DisableFlagParsing
    /\ cmd[found.cmd].Args = ExactArgs(1)
    /\ Called(found.cmd, "RunE")

\* ------------------------------------------------------------------------
\* Properties of the command tree
\* ------------------------------------------------------------------------
\* C14: a call of AddCommand panics if and only if one of its arguments is
\* the receiver, wherever in the argument list it stands; and no node is ever
\* in its own child list or its own parent.
C14_NoSelfChild ==
    /\ pc \in {"AddCommand", "panicked"} => (result = Panic <=> recv \in Range(in))
    /\ \A n \in Nodes : n \notin Children(n) /\ cmd[n].parent # n

\* The receiver was the second argument: the call panicked after the first
\* argument had been attached.
C14_Witness ==
    /\ pc = "panicked"
    /\ recv = "a"
    /\ in = <<"c", "a">>
    /\ result = Panic

C14_WitnessAlone ==
    /\ pc = "panicked"
    /\ in = <<recv>>

\* How many times k stands in the child list of p.
Occurrences(p, k) == Cardinality({i \in 1..Len(cmd[p].commands) : cmd[p].commands[i] = k})

\* C15: after any sequence of AddCommand and RemoveCommand calls every node
\* is in the child list of at most one node and at most once there, and k is
\* in the child list of p if and only if the parent of k is p.
C15_ExclusiveOwnership ==
    \A k \in Nodes :
        /\ Cardinality({p \in Nodes : k \in Children(p)}) <= 1
        /\ \A p \in Nodes :
              /\ Occurrences(p, k) <= 1
              /\ k \in Children(p) <=> cmd[k].parent = p

\* A call of fn has just returned (the step appends it to the call log).
JustCalled(fn) ==
    /\ Len(calls') = Len(calls) + 1
    /\ calls'[Len(calls')].fn = fn

\* C16: a call c.AddCommand(n1..nk) none of whose arguments is c returns
\* without panic, makes c the parent of every argument and appends the
\* arguments, in argument order, to the child list of c, whose former
\* children stay in front in their order; afterwards HasSubCommands holds on c
\* (k >= 1) and HasParent on each argument; the child lists of the other
\* nodes and the parents of the nodes that are not arguments do not change.
C16_AddCommandEffect ==
    [][(JustCalled("AddCommand") /\ recv' \notin Range(in')) =>
          /\ result' = Nil
          /\ cmd'[recv'].commands = cmd[recv'].commands \o in'
          /\ \A k \in Range(in') : cmd'[k].parent = recv' /\ HasParent(cmd', k)
          /\ in' # <<>> => HasSubCommands(cmd', recv')
          /\ \A n \in Nodes \ {recv'} : cmd'[n].commands = cmd[n].commands
          /\ \A n \in Nodes \ Range(in') : cmd'[n].parent = cmd[n].parent
      ]_vars

\* root.AddCommand(greet) and then root.AddCommand(list, item).
C16_Witness ==
    /\ pc = "AddCommand"
    /\ calls = <<[node |-> "r", fn |-> "AddCommand", args |-> <<"a">>],
                 [node |-> "r", fn |-> "AddCommand", args |-> <<"b", "c">>]>>
    /\ cmd["r"].commands = <<"a", "b", "c">>
    /\ \A k \in {"a", "b", "c"} : cmd[k].parent = "r" /\ HasParent(cmd, k)
    /\ HasSubCommands(cmd, "r")

\* C17: a call c.RemoveCommand(nodes) leaves in the child list of c exactly
\* the children that are not among the arguments, in their former order; the
\* parent of every removed child is cleared; the remaining children keep
\* their parent; an argument that is not a child of c keeps its parent and,
\* unless it is c itself, is unchanged altogether; and so is every other node.
C17_RemoveCommandEffect ==
    [][JustCalled("RemoveCommand") =>
          LET c       == recv'
              args    == Range(in')
              old     == cmd[c].commands
              Kept(k) == k \notin args
          IN  /\ cmd'[c].commands = SelectSeq(old, Kept)
              /\ \A k \in Range(old) \cap args : cmd'[k].parent = Nil
              /\ \A k \in Range(old) \ args : cmd'[k].parent = cmd[k].parent
              /\ \A k \in args \ Range(old) :
                    /\ cmd'[k].parent = cmd[k].parent
                    /\ k # c => cmd'[k] = cmd[k]
              /\ \A n \in Nodes \ ({c} \cup (Range(old) \cap args)) : cmd'[n] = cmd[n]
      ]_vars

\* From root -> [greet -> [item], list]: root.RemoveCommand(greet, item)
\* removes greet and clears its parent, keeps list, and leaves item, which is
\* not a child of root, with its parent greet.
C17_Witness ==
    /\ pc = "RemoveCommand"
    /\ calls = <<[node |-> "r", fn |-> "RemoveCommand", args |-> <<"a", "c">>]>>
    /\ cmd["r"].commands = <<"b">>
    /\ cmd["a"].parent = Nil
    /\ cmd["b"].parent = "r"
    /\ cmd["c"].parent = "a"
    /\ cmd["a"].commands = <<"c">>

\* ------------------------------------------------------------------------
\* Properties of the effective flag set
\* ------------------------------------------------------------------------
\* The nodes above n, following the parent references.
RECURSIVE Ancestors(_)
Ancestors(n) ==
    IF cmd[n].parent = Nil THEN {} ELSE {cmd[n].parent} \cup Ancestors(cmd[n].parent)

\* The flags n registered itself, in any of its three sets.
OwnFlags(n) == {f \in cmd[n].flags.formal \cup cmd[n].pflags.formal \cup cmd[n].lflags.formal :
                  f.owner = n}

\* The persistent flags registered on the nodes above n.
InheritedFlags(n) == UNION {cmd[p].pflags.formal : p \in Ancestors(n)}

\* C18: after the merge made by ParseFlags on a node, for every name that the
\* node registered itself (as a local or as a persistent flag) and that a
\* persistent flag of one of its ancestors bears too, Flags().Lookup(name) on
\* the node is the node's own flag, not the ancestor's.
C18_ClosestScopeWins ==
    pc = "parsed" =>
        \A f \in OwnFlags(recv) :
            (\E g \in InheritedFlags(recv) : g.Name = f.Name)
                => Lookup(cmd[recv].flags, f.Name).owner = recv

\* C19: after the merge made by ParseFlags on a node, every persistent flag
\* registered on the node or on any of its ancestors, at any depth, is found
\* by name in the node's effective flag set.
C19_PersistentVisible ==
    pc = "parsed" =>
        \A f \in cmd[recv].pflags.formal \cup InheritedFlags(recv) :
            Lookup(cmd[recv].flags, f.Name) # NilFlag

\* ------------------------------------------------------------------------
\* Properties of the persistent callbacks
\* ------------------------------------------------------------------------
PersistentStages == {"PersistentPreRun", "PersistentPostRun"}

\* C20: in an execute call that succeeds, for each of the two persistent
\* stages for which the resolved target sets neither field while one of its
\* ancestors sets one, a callback of that stage is invoked (the nearest such
\* ancestor's).
C20_PersistentInherited ==
    Succeeded =>
        \A s \in PersistentStages :
            (/\ ~HasCallback(found.cmd, s)
             /\ \E p \in Ancestors(found.cmd) : HasCallback(p, s))
            => s \in Range(CalledStages)

\* ------------------------------------------------------------------------
\* Properties of help requests and of disabled flag parsing
\* ------------------------------------------------------------------------
HelpRequested == \E i \in 1..Len(in) : in[i] \in HelpTokens

\* C21: when -h or --help is among the tokens, execute does not validate the
\* positional arguments of the target: the validator is not called and the
\* call does not end with a validation error, whatever the validator of the
\* target, root or subcommand.
C21_HelpBypassesValidation ==
    (pc = "done" /\ HelpRequested) =>
        /\ result # ErrValidation
        /\ \A i \in 1..Len(calls) : calls[i].fn # "Args"

\* q is the list of the last Len(q) elements of p.
IsSuffix(q, p) ==
    /\ Len(q) <= Len(p)
    /\ \A i \in 1..Len(q) : q[i] = p[Len(p) - Len(q) + i]

FlagLike(t) == TokenShape(t).kind # "arg"

\* C22: with DisableFlagParsing set on the root, resolution works on the raw
\* token list: no token is parsed as a flag (no flag value changes, execute
\* never returns a parse error), Find gets the tokens as given, and the
\* validator and every callback receive the tokens left by Find, flag-like
\* ones included, in their original order.
C22_DisableFlagParsing ==
    (cmd[recv].DisableFlagParsing /\ pc # "parse") =>
        /\ work = in
        /\ result \notin ParseErrors
        /\ fval = [f \in AllFlags |-> DefValue(f.Name)]
        /\ found # NoFind =>
              /\ found = Find(cmd, recv, in)
              /\ IsSuffix(found.args, in)
        /\ \A i \in 1..Len(calls) : calls[i].args = found.args

\* greet ran with a flag-like token among its arguments, which the root's
\* flag set would have rejected.
C22_Witness ==
    /\ Succeeded
    /\ cmd[recv].DisableFlagParsing
    /\ found.cmd = "a"
    /\ in = <<"greet", "--bogus", "x">>
    /\ found.args = <<"--bogus", "x">>
    /\ \E i \in 1..Len(calls) : calls[i].fn = "RunE" /\ calls[i].args = <<"--bogus", "x">>
    /\ FlagLike("--bogus")

\* ------------------------------------------------------------------------
\* Properties of the runtime context
\* ------------------------------------------------------------------------
\* The context the caller attached to the root: the argument of
\* ExecuteContext, or with Execute the value of the last SetContext on the
\* root (nil if there was none).
SetOnRoot == {i \in 1..Len(calls) : calls[i].fn = "SetContext" /\ calls[i].node = "r"}

LastSetOnRoot ==
    IF SetOnRoot = {} THEN Nil
    ELSE calls[CHOOSE i \in SetOnRoot : \A j \in SetOnRoot : j <= i].args[1]

Entry == calls[CHOOSE i \in 1..Len(calls) : calls[i].fn \in {"Execute", "ExecuteContext"}]

Attached == IF Entry.fn = "ExecuteContext" THEN Entry.args[1] ELSE LastSetOnRoot

\* C23: every lifecycle callback of the root reads from Context() the value
\* the caller attached to the root before the execution, through SetContext
\* followed by Execute or through ExecuteContext(ctx).
C23_ContextPreserved ==
    \A i \in 1..Len(calls) :
        (calls[i].fn \in Stages \cup FallibleFns /\ calls[i].node = "r")
            => Context(cmd, "r") = Attached

\* ------------------------------------------------------------------------
\* Properties of the streams
\* ------------------------------------------------------------------------
\* The node and the nodes above it, nearest first.
RECURSIVE Chain(_)
Chain(n) == IF cmd[n].parent = Nil THEN <<n>> ELSE <<n>> \o Chain(cmd[n].parent)

\* The binding in field fld of the first node of the chain of n that has one,
\* std if none has.
Nearest(n, fld, std) ==
    LET ch == Chain(n)
        S  == {i \in 1..Len(ch) : cmd[ch[i]][fld] # Nil}
    IN  IF S = {} THEN std ELSE cmd[ch[Min(S)]][fld]

ResolutionOK ==
    \A n \in Nodes :
        /\ OutOrStdout(cmd, n) = Nearest(n, "output", Stdout)
        /\ ErrOrStderr(cmd, n) = Nearest(n, "errOutput", Stderr)
        /\ InOrStdin(cmd, n) = Nearest(n, "input", Stdin)

StreamField(fn) ==
    CASE fn = "SetOutput" -> "output" [] fn = "SetErr" -> "errOutput" [] fn = "SetIn" -> "input"

\* A Set call changes the one binding of the one node it is made on.
SetFrame ==
    \A fn \in {"SetOutput", "SetErr", "SetIn"} :
        JustCalled(fn) =>
            /\ cmd'[recv'][StreamField(fn)] = calls'[Len(calls')].args[1]
            /\ \A n \in Nodes \ {recv'} : cmd'[n] = cmd[n]
            /\ \A fld \in {"output", "errOutput", "input"} \ {StreamField(fn)} :
                  cmd'[recv'][fld] = cmd[recv'][fld]

\* C24: on every node each of OutOrStdout, ErrOrStderr and InOrStdin is the
\* node's own binding if set, else the binding of the nearest ancestor that
\* has one, else the process's standard stream, each of the three resolved
\* from its own field only; and SetOutput, SetErr and SetIn change the one
\* binding of the node they are called on and nothing of any other node.
C24_StreamResolution == []ResolutionOK /\ [][SetFrame]_vars

\* item resolves its output to greet's buffer although the root has one too,
\* its error stream to the root's, and its input to the process's.
C24_Witness ==
    /\ cmd["r"].output = "bufA"
    /\ cmd["a"].output = "bufB"
    /\ cmd["r"].errOutput = "bufA"
    /\ cmd["c"].output = Nil
    /\ OutOrStdout(cmd, "c") = "bufB"
    /\ ErrOrStderr(cmd, "c") = "bufA"
    /\ InOrStdin(cmd, "c") = Stdin

\* ------------------------------------------------------------------------
\* Properties of the validators
\* ------------------------------------------------------------------------
\* The argument counts a validator accepts, by its name and parameters.
Accepted(v) ==
    CASE v.kind = "NoArgs"        -> {0}
      [] v.kind = "ArbitraryArgs" -> Nat
      [] v.kind = "MinimumNArgs"  -> {k \in 0..(MaxArgs + 1) : k >= v.n}
      [] v.kind = "MaximumNArgs"  -> 0..v.n
      [] v.kind = "ExactArgs"     -> {v.n} \cap Nat
      [] v.kind = "RangeArgs"     -> {k \in v.n..v.max : k >= 0}

\* C25: a built-in validator returns an error exactly when the number of
\* arguments is outside the counts it accepts (NoArgs: none; ArbitraryArgs:
\* any; MinimumNArgs(n): n or more; MaximumNArgs(n): n or fewer;
\* ExactArgs(n): n; RangeArgs(min, max): min to max inclusive), whatever the
\* arguments are and for every parameter, and the call changes neither the
\* node nor the argument list.
C25_Validators ==
    /\ [](pc = "returned" =>
            /\ result \in {Nil, ErrValidation}
            /\ result = Nil <=> Len(in) \in Accepted(cmd["a"].Args))
    /\ [][JustCalled("Args") => (cmd' = cmd /\ calls'[Len(calls')].args = in')]_vars

\* RangeArgs(1, 2) accepted two arguments; it rejected three, ExactArgs(2)
\* rejected one and MinimumNArgs(2) accepted three.
C25_Witness ==
    /\ pc = "returned"
    /\ cmd["a"].Args = RangeArgs(1, 2)
    /\ Len(in) = 2
    /\ result = Nil

C25_WitnessRejected ==
    /\ pc = "returned"
    /\ \/ cmd["a"].Args = RangeArgs(1, 2) /\ Len(in) = 3
       \/ cmd["a"].Args = ExactArgs(2) /\ Len(in) = 1
    /\ result = ErrValidation

C25_WitnessMinimum ==
    /\ pc = "returned"
    /\ cmd["a"].Args = MinimumNArgs(2)
    /\ Len(in) = 3
    /\ result = Nil

\* ------------------------------------------------------------------------
\* Properties of hidden commands
\* ------------------------------------------------------------------------
\* The positions of the children of p that are not hidden.
VisiblePositions(p) == {i \in 1..Len(cmd[p].commands) : ~cmd[cmd[p].commands[i]].Hidden}

\* list names exactly the non-hidden children of p, in registration order.
ListsVisible(p, list) ==
    /\ Len(list) = Cardinality(VisiblePositions(p))
    /\ \A i \in VisiblePositions(p) :
          list[Cardinality({j \in VisiblePositions(p) : j <= i})] = Name(cmd, cmd[p].commands[i])

\* C26: a first token that is the name or an alias of a child makes execute
\* resolve into that child, hidden or not, and run its callbacks; and for
\* every node the command listing of UsageString and of ModernHelp names the
\* non-hidden children, all of them and only them, in registration order.
C26_HiddenCommands ==
    /\ (pc \notin {"parse", "find"} /\ result \notin ParseErrors
          /\ Len(work) > 0 /\ MatchesAChild(recv, work[1]))
        => LET k == FirstMatch(cmd, recv, work[1])
           IN  /\ k # Nil
               /\ found.cmd = k \/ found.cmd \in Descendants(k)
               /\ (Succeeded /\ cmd[found.cmd].RunE) => Called(found.cmd, "RunE")
               /\ (Succeeded /\ cmd[found.cmd].Run /\ ~cmd[found.cmd].RunE)
                     => Called(found.cmd, "Run")
    /\ \A p \in Nodes :
          /\ ListsVisible(p, UsageCommands(cmd, p, 1))
          /\ ListsVisible(p, ModernHelpCommands(cmd, p))

\* The hidden greet was resolved by its alias and ran, while the listing of
\* the root shows list only.
C26_Witness ==
    /\ Succeeded
    /\ cmd["a"].Hidden /\ ~cmd["b"].Hidden
    /\ in = <<"hi", "x">>
    /\ found.cmd = "a"
    /\ Called("a", "RunE")
    /\ UsageCommands(cmd, "r", 1) = <<"list">>
    /\ ModernHelpCommands(cmd, "r") = <<"list">>

\* ------------------------------------------------------------------------
\* Properties of the arguments handed to the validator and the callbacks
\* ------------------------------------------------------------------------
\* C27: in one execute call the validator and every callback invoked are
\* called with the target that Find returned and with the argument list that
\* Find returned: what is left of the tokens after flag parsing once the
\* subcommand names have been taken from their front, in original order.
C27_SameTargetAndArgs ==
    /\ \A i \in 1..Len(calls) :
          /\ calls[i].node = found.cmd
          /\ calls[i].args = found.args
    /\ found # NoFind =>
          /\ found = Find(cmd, recv, work)
          /\ IsSuffix(found.args, work)

\* greet's validator and four callbacks all got ["x"], the tokens being
\* ["greet", "--help", "x"] with the help flag registered on the root.
C27_Witness ==
    /\ Succeeded
    /\ in = <<"greet", "--help", "x">>
    /\ work = <<"greet", "x">>
    /\ found = [cmd |-> "a", args |-> <<"x">>, err |-> Nil]
    /\ cmd["a"].Args = ExactArgs(1)
    /\ Len(calls) = 5
    /\ calls[1].fn = "Args"
    /\ \A i \in 1..Len(calls) : calls[i].node = "a" /\ calls[i].args = <<"x">>

\* ------------------------------------------------------------------------
\* Properties of merging
\* ------------------------------------------------------------------------
\* The effective flag set of every node holds at most one flag per name, and
\* merging again into the node just parsed changes nothing.
MergeStable ==
    /\ \A n \in Nodes : \A f, g \in cmd[n].flags.formal : f.Name = g.Name => f = g
    /\ pc = "parsed" => mergePersistentFlags(cmd, recv) = cmd

\* A name found in the effective set of a node is found there with the same
\* descriptor after the step.
NeverOverwrites ==
    \A n \in Nodes, name \in FlagNames :
        Lookup(cmd[n].flags, name) # NilFlag
            => Lookup(cmd'[n].flags, name) = Lookup(cmd[n].flags, name)

\* C28: merging never overwrites: across every registration and every
\* ParseFlags (which merges) a name already present in the effective flag
\* set of a node keeps its descriptor; a second merge changes nothing; and an
\* effective set never holds two flags of one name.
C28_MergeNeverOverwrites == []MergeStable /\ [][NeverOverwrites]_vars

\* greet registered name through Flags() before the root registered a
\* persistent name; the merge on greet kept greet's own flag.
C28_Witness ==
    /\ pc = "parsed"
    /\ recv = "a"
    /\ calls[1] = [node |-> "a", fn |-> "Register", args |-> <<"flags", "name">>]
    /\ calls[2] = [node |-> "r", fn |-> "Register", args |-> <<"pflags", "name">>]
    /\ Lookup(cmd["r"].pflags, "name").owner = "r"
    /\ Lookup(cmd["a"].flags, "name").owner = "a"

\* ParseFlags was called twice on greet after the root's persistent flag was
\* registered.
C28_WitnessTwice ==
    /\ pc = "parsed"
    /\ Len(calls) = 3
    /\ calls[2].fn = "ParseFlags" /\ calls[2].node = "a"
    /\ calls[3].fn = "ParseFlags" /\ calls[3].node = "a"
    /\ Lookup(cmd["a"].flags, "verbose").owner = "r"

\* ------------------------------------------------------------------------
\* Properties of the parent chain
\* ------------------------------------------------------------------------
\* The nodes reached from n by following parent at most k times.
RECURSIVE Up(_, _)
Up(n, k) ==
    IF k = 0 \/ cmd[n].parent = Nil THEN {}
    ELSE {cmd[n].parent} \cup Up(cmd[n].parent, k - 1)

ParentAcyclic == \A n \in Nodes : n \notin Up(n, Cardinality(Nodes))

\* C29: after any sequence of AddCommand and RemoveCommand calls none of
\* which panicked, no node is above itself in the parent relation, and Root()
\* returns on every node, its result being the node itself if it has no
\* parent and otherwise the one node above it that has no parent.
C29_ParentAcyclic ==
    result # Panic =>
        /\ ParentAcyclic
        /\ \A n \in Nodes :
              /\ Root(cmd, n) # Diverges
              /\ cmd[Root(cmd, n)].parent = Nil
              /\ Root(cmd, n) \in {n} \cup Up(n, Cardinality(Nodes))

\* C30: a call of AddCommand that panics because one of its arguments is the
\* receiver has attached none of its arguments: every child list and every
\* parent reference is as it was before the call.
C30_AddCommandAllOrNothing ==
    [][(JustCalled("AddCommand") /\ result' = Panic) =>
          \A n \in Nodes :
              /\ cmd'[n].commands = cmd[n].commands
              /\ cmd'[n].parent = cmd[n].parent
      ]_vars

====
